---- MODULE Spec2Model ----
(***************************************************************************)
(* Model of the asset generators of dominikknafelj/tetris:                 *)
(*   src/generate_sounds.py  square-wave synthesis, mixing, normalisation  *)
(*                           and the 16-bit PCM WAV writer, run by main    *)
(*   src/generate_icon.py    the icon rasteriser, run by generate_mac_icons*)
(*                                                                         *)
(* Python floats are modelled as exact rationals <<n, d>> in lowest terms  *)
(* with d > 0.  Every literal of the source (0.05, 0.3, 60.0 / 192, ...)   *)
(* is the rational it denotes.  math.sin is only ever used through its     *)
(* sign, which is computed exactly from the phase.                         *)
(***************************************************************************)
EXTENDS Integers, Sequences, FiniteSets, TLC

(***************************************************************************)
(* Rational arithmetic (the float operations of the source).               *)
(***************************************************************************)
RECURSIVE GCD(_, _)
GCD(a, b) == IF b = 0 THEN a ELSE GCD(b, a % b)

IAbs(x) == IF x < 0 THEN -x ELSE x

\* the rational n / d in lowest terms, d # 0
Rat(n, d) ==
    LET g == GCD(IAbs(n), IAbs(d))
        s == IF d < 0 THEN -1 ELSE 1
    IN  <<(s * n) \div g, (s * d) \div g>>

\* an integer (or an integer-valued float) as a rational
Whole(n) == <<n, 1>>

RMul(x, y) == Rat(x[1] * y[1], x[2] * y[2])
RDiv(x, y) == Rat(x[1] * y[2], x[2] * y[1])
RAdd(x, y) == Rat(x[1] * y[2] + y[1] * x[2], x[2] * y[2])
RSub(x, y) == Rat(x[1] * y[2] - y[1] * x[2], x[2] * y[2])
RNeg(x)    == <<-x[1], x[2]>>
RLe(x, y)  == x[1] * y[2] <= y[1] * x[2]
RLt(x, y)  == x[1] * y[2] < y[1] * x[2]
\* abs(x)
RAbs(x)    == IF x[1] < 0 THEN RNeg(x) ELSE x
\* max(x, y) and min(x, y) of two numbers
RMax2(x, y) == IF RLt(x, y) THEN y ELSE x
RMin2(x, y) == IF RLt(y, x) THEN y ELSE x

\* math.floor(x)
Floor(x) == x[1] \div x[2]

\* int(x): Python's float -> int conversion truncates toward zero
PyInt(x) == IF x[1] >= 0 THEN x[1] \div x[2] ELSE -((-x[1]) \div x[2])

\* round(x): Python 3 rounds to the nearest integer, ties to the even one
PyRound(x) ==
    LET f  == Floor(x)
        r2 == 2 * (x[1] - f * x[2])      \* twice the fractional part, times d
    IN  IF r2 < x[2] THEN f
        ELSE IF r2 > x[2] THEN f + 1
        ELSE IF f % 2 = 0 THEN f ELSE f + 1

\* math.sin(2 * math.pi * frequency * t) >= 0, from the phase 2*f*t counted
\* in half periods: the sine is >= 0 on even half periods and 0 on every
\* boundary.  (At t = 0 the float sine is exactly 0.0; at a later boundary
\* it is a rounding residue of either sign.  Only the polarity of that one
\* sample depends on it, never its magnitude or the length of a buffer.)
SinNonNeg(frequency, t) ==
    LET x == RMul(Whole(2), RMul(frequency, t))
    IN  Floor(x) % 2 = 0 \/ x[2] = 1

(***************************************************************************)
(* generate_square_wave (src/generate_sounds.py:7-16)                      *)
(***************************************************************************)
\* (variant: the length rounded to the nearest integer instead of truncated)
NumSamplesRounded(duration, sample_rate) ==
    PyRound(RMul(duration, Whole(sample_rate)))

\* num_samples = int(duration * sample_rate)
NumSamples(duration, sample_rate) == PyInt(RMul(duration, Whole(sample_rate)))

generate_square_wave(frequency, duration, amplitude, sample_rate) ==
    LET num_samples == NumSamples(duration, sample_rate)
    IN  [k \in 1..num_samples |->
            LET t == Rat(k - 1, sample_rate)
            IN  IF SinNonNeg(frequency, t) THEN amplitude ELSE RNeg(amplitude)]

(***************************************************************************)
(* Sample rates.  The rates of the source are far too high to enumerate    *)
(* buffers sample by sample (background.wav holds over a million frames),  *)
(* so a run of main is modelled with every rate divided by Downsample:     *)
(* the same code, with time counted in coarser ticks.  The operators above *)
(* take the rate as a parameter and are also applied to the real rates.    *)
(***************************************************************************)
Downsample == 147

\* generate_square_wave(..., sample_rate=44100)
SquareWaveRate == 44100
\* save_wave_file(..., sample_rate=32768)
WaveFileRate == 32768
\* sample_rate = 32768 in create_drop_sound
DropRate == 32768
\* sample_rate = 32768 in create_clear_sound
ClearRate == 32768
\* sample_rate = 44100 in create_background_music
MusicRate == 44100

Rate(r) == r \div Downsample

\* the rational with decimal expansion n / 100 (frequencies in hundredths of Hz)
Centi(n) == Rat(n, 100)

(***************************************************************************)
(* Sequence helpers: Python list operations.                               *)
(***************************************************************************)
Range(s) == {s[i] : i \in 1..Len(s)}

\* min(list) and max(list) of a non-empty list
ListMin(s) == CHOOSE x \in Range(s) : \A y \in Range(s) : RLe(x, y)
ListMax(s) == CHOOSE x \in Range(s) : \A y \in Range(s) : RLe(y, x)

IMin(a, b) == IF a < b THEN a ELSE b
IMax(a, b) == IF a < b THEN b ELSE a

\* [0] * n
Zeros(n) == [k \in 1..n |-> Whole(0)]

\* list * 2
Twice(s) == s \o s

(***************************************************************************)
(* Mixing.                                                                 *)
(***************************************************************************)
\* [sum(x) for x in zip(chord_samples, wave)]: zip stops at the shorter list
ZipSum(chord_samples, wave) ==
    [k \in 1..IMin(Len(chord_samples), Len(wave)) |->
        RAdd(chord_samples[k], wave[k])]

\* the final chord of create_tetris_sound: the first wave, then each further
\* wave zip-summed into chord_samples
RECURSIVE ChordFold(_, _, _)
ChordFold(chord_samples, waves, j) ==
    IF j > Len(waves) THEN chord_samples
    ELSE ChordFold(ZipSum(chord_samples, waves[j]), waves, j + 1)

MixChord(waves) == ChordFold(waves[1], waves, 2)

\* melody + bass of create_background_music: both lists are extended with
\* zeros to max_length, then added index by index
MixPadded(melody_samples, bass_line) ==
    LET max_length == IMax(Len(melody_samples), Len(bass_line))
        a == melody_samples \o Zeros(max_length - Len(melody_samples))
        b == bass_line \o Zeros(max_length - Len(bass_line))
    IN  [k \in 1..max_length |-> RAdd(a[k], b[k])]

(***************************************************************************)
(* Normalisation (create_tetris_sound and create_background_music).        *)
(***************************************************************************)
\* max_amplitude = max(abs(min(samples)), abs(max(samples)))
MaxAmplitude(s) == RMax2(RAbs(ListMin(s)), RAbs(ListMax(s)))

\* (variant: the peak taken from max(samples) alone)
NormalizeByMax(s, headroom) ==
    LET max_amplitude == RAbs(ListMax(s))
    IN  IF RLt(Whole(0), max_amplitude)
        THEN LET scale_factor == RDiv(headroom, max_amplitude)
             IN  [k \in 1..Len(s) |-> RMul(s[k], scale_factor)]
        ELSE s

\* (variant: the peak scaled to 1 / headroom instead of headroom)
NormalizeOverHeadroom(s, headroom) ==
    LET max_amplitude == MaxAmplitude(s)
    IN  IF RLt(Whole(0), max_amplitude)
        THEN LET scale_factor == RDiv(Whole(1), RMul(headroom, max_amplitude))
             IN  [k \in 1..Len(s) |-> RMul(s[k], scale_factor)]
        ELSE s

\* if max_amplitude > 0: samples = [s * (headroom / max_amplitude) ...]
Normalize(s, headroom) ==
    LET max_amplitude == MaxAmplitude(s)
    IN  IF RLt(Whole(0), max_amplitude)
        THEN LET scale_factor == RDiv(headroom, max_amplitude)
             IN  [k \in 1..Len(s) |-> RMul(s[k], scale_factor)]
        ELSE s

(***************************************************************************)
(* Attack and release ramps of create_background_music.  An envelope run   *)
(* is [note, attack, release, error]: the buffer, the list indices each    *)
(* loop has accessed (as Python resolves them) and whether an access fell  *)
(* outside the list (IndexError).                                          *)
(***************************************************************************)
\* list[k] for a possibly negative k: Python counts a negative index from
\* the end
PyIndex(k, length) == IF k < 0 THEN k + length ELSE k

\* for i in range(n): note_samples[i] *= (i / attack_samples)
RECURSIVE AttackLoop(_, _, _, _)
AttackLoop(env, attack_samples, i, n) ==
    IF i >= n \/ env.error THEN env
    ELSE LET j == PyIndex(i, Len(env.note))
         IN  IF j < 0 \/ j >= Len(env.note)
             THEN [env EXCEPT !.error = TRUE, !.attack = Append(@, j)]
             ELSE AttackLoop(
                    [env EXCEPT !.note[j + 1] = RMul(@, Rat(i, attack_samples)),
                                !.attack = Append(@, j)],
                    attack_samples, i + 1, n)

\* for i in range(n): note_samples[-(i+1)] *= (i / release_samples)
RECURSIVE ReleaseLoop(_, _, _, _)
ReleaseLoop(env, release_samples, i, n) ==
    IF i >= n \/ env.error THEN env
    ELSE LET j == PyIndex(-(i + 1), Len(env.note))
         IN  IF j < 0 \/ j >= Len(env.note)
             THEN [env EXCEPT !.error = TRUE, !.release = Append(@, j)]
             ELSE ReleaseLoop(
                    [env EXCEPT !.note[j + 1] = RMul(@, Rat(i, release_samples)),
                                !.release = Append(@, j)],
                    release_samples, i + 1, n)

\* (variant: the loops over range(<ramp>_samples), not clamped to the list)
EnvelopeUnclamped(note_samples, attack_samples, release_samples) ==
    LET start == [note |-> note_samples, attack |-> <<>>, release |-> <<>>,
                  error |-> FALSE]
        a == AttackLoop(start, attack_samples, 0, attack_samples)
    IN  ReleaseLoop(a, release_samples, 0, release_samples)

\* the attack loop, then the release loop, each over
\* range(min(<ramp>_samples, len(note_samples)))
Envelope(note_samples, attack_samples, release_samples) ==
    LET start == [note |-> note_samples, attack |-> <<>>, release |-> <<>>,
                  error |-> FALSE]
        a == AttackLoop(start, attack_samples, 0,
                        IMin(attack_samples, Len(note_samples)))
    IN  ReleaseLoop(a, release_samples, 0,
                    IMin(release_samples, Len(note_samples)))

(***************************************************************************)
(* The score of create_background_music.                                   *)
(***************************************************************************)
\* tempo = 192
Tempo == 192

\* quarter_duration = 60.0 / tempo
quarter_duration == Rat(60, Tempo)

\* note_freq(n) = 440 * 2 ** (n / 12.0), which is irrational for n not a
\* multiple of 12: tabulated to the hundredth of a hertz for the semitones
\* the score uses.  The frequency decides only the polarity of a sample.
note_freq(semitones_from_a4) ==
    CASE semitones_from_a4 = -8 -> Centi(27718)
      [] semitones_from_a4 = -7 -> Centi(29366)
      [] semitones_from_a4 = -5 -> Centi(32963)
      [] semitones_from_a4 = -3 -> Centi(36999)
      [] semitones_from_a4 = 0  -> Centi(44000)
      [] semitones_from_a4 = 2  -> Centi(49388)
      [] semitones_from_a4 = 4  -> Centi(55437)
      [] semitones_from_a4 = 5  -> Centi(58733)
      [] semitones_from_a4 = 7  -> Centi(65926)
      [] semitones_from_a4 = 9  -> Centi(73999)
      [] semitones_from_a4 = 11 -> Centi(83061)
      [] semitones_from_a4 = 12 -> Centi(88000)
      [] semitones_from_a4 = 14 -> Centi(98777)
      [] semitones_from_a4 = 16 -> Centi(110873)
      [] semitones_from_a4 = 17 -> Centi(117466)

\* melody: <<semitones from A4, duration in quarter notes>>, in score order
melody ==
    <<
       <<2, <<3, 4>>>>, <<4, <<1, 4>>>>, <<5, <<1, 2>>>>, <<7, <<1, 2>>>>,
       <<9, <<1, 2>>>>, <<7, <<1, 2>>>>, <<5, <<3, 4>>>>, <<7, <<1, 4>>>>,
       <<9, <<1, 2>>>>, <<11, <<1, 2>>>>, <<12, <<1, 2>>>>, <<11, <<1, 2>>>>,
       <<9, <<3, 4>>>>, <<7, <<1, 4>>>>, <<5, <<1, 2>>>>, <<4, <<1, 2>>>>,
       <<2, <<1, 2>>>>, <<0, <<1, 2>>>>, <<2, <<3, 4>>>>, <<4, <<1, 4>>>>,
       <<5, <<1, 2>>>>, <<7, <<1, 2>>>>, <<9, <<1, 2>>>>, <<7, <<1, 2>>>>,
       <<5, <<3, 4>>>>, <<7, <<1, 4>>>>, <<9, <<1, 2>>>>, <<11, <<1, 2>>>>,
       <<12, <<1, 2>>>>, <<11, <<1, 2>>>>, <<9, <<1, 1>>>>, <<14, <<1, 1>>>>,
       <<14, <<1, 1>>>>, <<14, <<1, 1>>>>, <<12, <<1, 2>>>>, <<11, <<1, 2>>>>,
       <<9, <<1, 1>>>>, <<7, <<1, 1>>>>, <<14, <<1, 1>>>>, <<14, <<1, 1>>>>,
       <<14, <<1, 1>>>>, <<12, <<1, 2>>>>, <<11, <<1, 2>>>>, <<9, <<1, 1>>>>,
       <<7, <<1, 1>>>>, <<9, <<1, 1>>>>, <<11, <<1, 1>>>>, <<12, <<1, 1>>>>,
       <<14, <<1, 1>>>>, <<16, <<1, 1>>>>, <<14, <<3, 2>>>>, <<12, <<1, 2>>>>,
       <<11, <<1, 1>>>>, <<9, <<1, 1>>>>, <<11, <<1, 1>>>>, <<12, <<1, 1>>>>,
       <<14, <<1, 1>>>>, <<16, <<1, 1>>>>, <<17, <<1, 1>>>>, <<16, <<3, 2>>>>,
       <<14, <<1, 2>>>>, <<12, <<1, 1>>>>, <<14, <<2, 1>>>>, <<14, <<1, 1>>>>
    >>

\* bass: <<semitones from A4, duration in quarter notes>>, in score order
bass ==
    <<
       <<-8, <<1, 1>>>>, <<-8, <<1, 1>>>>, <<-8, <<1, 1>>>>, <<-5, <<1, 1>>>>,
       <<-5, <<1, 1>>>>, <<-5, <<1, 1>>>>, <<-7, <<1, 1>>>>, <<-7, <<1, 1>>>>,
       <<-7, <<1, 1>>>>, <<-8, <<1, 1>>>>, <<-8, <<1, 1>>>>, <<-8, <<1, 1>>>>,
       <<-5, <<1, 1>>>>, <<-5, <<1, 1>>>>, <<-5, <<1, 1>>>>, <<-8, <<1, 1>>>>,
       <<-8, <<1, 1>>>>, <<-8, <<1, 1>>>>, <<-3, <<1, 1>>>>, <<-3, <<1, 1>>>>,
       <<-3, <<1, 1>>>>, <<-8, <<1, 1>>>>, <<-8, <<1, 1>>>>, <<-8, <<1, 1>>>>,
       <<-3, <<1, 1>>>>, <<-3, <<1, 1>>>>, <<-3, <<1, 1>>>>, <<-8, <<1, 1>>>>,
       <<-8, <<1, 1>>>>, <<-8, <<1, 1>>>>, <<-5, <<1, 1>>>>, <<-5, <<1, 1>>>>,
       <<-5, <<1, 1>>>>, <<-8, <<1, 1>>>>, <<-8, <<1, 1>>>>, <<-8, <<1, 1>>>>,
       <<-7, <<1, 1>>>>, <<-7, <<1, 1>>>>, <<-7, <<1, 1>>>>, <<-8, <<1, 1>>>>,
       <<-8, <<1, 1>>>>, <<-8, <<1, 1>>>>, <<-5, <<1, 1>>>>, <<-5, <<1, 1>>>>,
       <<-5, <<1, 1>>>>, <<-8, <<1, 1>>>>, <<-8, <<1, 1>>>>, <<-8, <<1, 1>>>>
    >>


(***************************************************************************)
(* save_wave_file: the PCM conversion.                                     *)
(***************************************************************************)
\* (variant: the scaled sample rounded instead of truncated)
ToPCMRounded(sample) == PyRound(RMul(sample, Whole(32767)))

\* sample = int(sample * 32767)
ToPCM(sample) == PyInt(RMul(sample, Whole(32767)))

\* struct.pack('h', v) raises struct.error unless v is a signed 16-bit value
PackFits(v) == -32768 <= v /\ v <= 32767

\* the loop of save_wave_file over samples: every sample converted and
\* packed, or struct.error at the first value that does not fit, with the
\* frames packed before it (which are then never written)
EncodeLoop(buf) ==
    LET bad == {k \in 1..Len(buf) : ~PackFits(ToPCM(buf[k]))}
        stop == IF bad = {} THEN Len(buf) + 1
                ELSE CHOOSE k \in bad : \A j \in bad : k <= j
    IN  [error |-> bad # {},
         sample_data |-> [k \in 1..(stop - 1) |-> ToPCM(buf[k])]]

(***************************************************************************)
(* create_tetris_icon: the rectangles drawn for a canvas of the given size.*)
(***************************************************************************)
blocks ==
    << <<<<0, 0>>, <<1, 0>>, <<2, 0>>, <<3, 0>>>>,
       <<<<1, 1>>, <<1, 2>>, <<1, 3>>>>,
       <<<<0, 3>>, <<2, 3>>>> >>

colors == << <<0, 240, 240>>, <<240, 160, 0>>, <<0, 0, 240>>, <<240, 240, 0>> >>

BlockRect(size, color_idx, x, y) ==
    LET block_size == size \div 4
        padding == block_size \div 8
    IN  [left   |-> x * block_size + padding,
         top    |-> y * block_size + padding,
         right  |-> (x + 1) * block_size - padding,
         bottom |-> (y + 1) * block_size - padding,
         x |-> x, y |-> y,
         color  |-> colors[(color_idx % Len(colors)) + 1]]

create_tetris_icon(size) ==
    [size  |-> size,
     rects |-> {BlockRect(size, c - 1, blocks[c][b][1], blocks[c][b][2]) :
                   <<c, b>> \in {<<c, b>> \in (1..Len(blocks)) \X (1..4) :
                                    b <= Len(blocks[c])}}]

\* sizes = [16, 32, 64, 128, 256, 512, 1024]
sizes == <<16, 32, 64, 128, 256, 512, 1024>>

(***************************************************************************)
(* State.                                                                  *)
(***************************************************************************)
VARIABLES
    program,      \* the entry point that runs: "sounds" (main of
                  \* generate_sounds), "icons" (generate_mac_icons), or one
                  \* function called on its own
    pc,           \* the position of the run
    dir_exists,   \* whether the output directory of the program exists
    asset,        \* index of the asset being generated (0: none)
    idx,          \* loop index inside the running create_* function
    samples,      \* the sample list under construction / handed to the writer
    bass_samples, \* bass_samples of create_background_music
    synth_rate,   \* the sample rate the current samples were synthesised at
    wave_file,    \* the open wave writer, or NoFile
    files,        \* the files written so far, in order
    error,        \* the exception that ended the run, or "none"
    call,         \* arguments of a function called on its own
    ret           \* its result

vars == <<program, pc, dir_exists, asset, idx, samples, bass_samples,
          synth_rate, wave_file, files, error, call, ret>>

NoFile == [name |-> "none"]
NoCall == [fn |-> "none"]

\* the seven assets in the order main saves them
AssetNames == <<"move", "rotate", "drop", "clear", "tetris", "game_over",
                "background">>

\* pc at which the create_* call of each asset starts
CreatePc == <<"move", "rotate", "drop", "clear", "tetris", "game_over",
              "melody">>

WavName(k) == IF k = 0 THEN "samples" ELSE AssetNames[k]

(***************************************************************************)
(* main of generate_sounds.py                                              *)
(***************************************************************************)
\* os.makedirs(name, exist_ok=...): FileExistsError when the directory is
\* there and exist_ok is false
MakedirsFails(exists, exist_ok) == exists /\ ~exist_ok

\* os.makedirs('assets/sounds', exist_ok=True)
SoundsMakedirs ==
    /\ program = "sounds" /\ pc = "makedirs"
    /\ IF MakedirsFails(dir_exists, TRUE)
       THEN /\ error' = "FileExistsError" /\ pc' = "error"
            /\ UNCHANGED <<dir_exists, asset>>
       ELSE /\ dir_exists' = TRUE /\ pc' = CreatePc[1] /\ asset' = 1
            /\ UNCHANGED error
    /\ idx' = 1 /\ samples' = <<>>
    /\ UNCHANGED <<program, bass_samples, synth_rate, wave_file, files,
                   call, ret>>

\* one iteration of "for freq in freqs: samples.extend(
\* generate_square_wave(freq, duration, amplitude))"; the function returns
\* after the last one
NoteLoop(freqs, duration, amplitude) ==
    /\ samples' = samples \o generate_square_wave(Whole(freqs[idx]), duration,
                                 amplitude, Rate(SquareWaveRate))
    /\ synth_rate' = Rate(SquareWaveRate)
    /\ IF idx = Len(freqs) THEN pc' = "open" /\ idx' = 1
                           ELSE pc' = pc /\ idx' = idx + 1
    /\ UNCHANGED <<program, dir_exists, asset, bass_samples, wave_file, files,
                   error, call, ret>>

create_move_sound ==
    /\ program = "sounds" /\ pc = "move"
    /\ NoteLoop(<<440, 392, 349>>, Rat(5, 100), Rat(3, 10))

create_rotate_sound ==
    /\ program = "sounds" /\ pc = "rotate"
    /\ NoteLoop(<<440, 554, 659, 880>>, Rat(3, 100), Rat(3, 10))

create_game_over_sound ==
    /\ program = "sounds" /\ pc = "game_over"
    /\ NoteLoop(<<880, 659, 554, 440, 330>>, Rat(1, 10), Rat(4, 10))

\* the sample loop of create_drop_sound
DropSamples(sample_rate) ==
    LET duration == Rat(1, 10)
        num_samples == NumSamples(duration, sample_rate)
    IN  [k \in 1..num_samples |->
            LET i == k - 1
                t == Rat(i, sample_rate)
                freq == RMul(Whole(880), RSub(Whole(1), RDiv(t, duration)))
                sample == IF SinNonNeg(freq, t) THEN Rat(4, 10) ELSE Rat(-4, 10)
            IN  RMul(sample, RSub(Whole(1), Rat(i, num_samples)))]

create_drop_sound ==
    /\ program = "sounds" /\ pc = "drop"
    /\ samples' = DropSamples(Rate(DropRate))
    /\ synth_rate' = Rate(DropRate)
    /\ pc' = "open"
    /\ UNCHANGED <<program, dir_exists, asset, idx, bass_samples, wave_file,
                   files, error, call, ret>>

\* the sample loop of create_clear_sound
ClearSamples(sample_rate) ==
    LET duration == Rat(2, 10)
        num_samples == NumSamples(duration, sample_rate)
    IN  [k \in 1..num_samples |->
            LET i == k - 1
                t == Rat(i, sample_rate)
                freq == RAdd(Whole(440), RDiv(RMul(Whole(880), t), duration))
            IN  IF SinNonNeg(freq, t) THEN Rat(4, 10) ELSE Rat(-4, 10)]

create_clear_sound ==
    /\ program = "sounds" /\ pc = "clear"
    /\ samples' = ClearSamples(Rate(ClearRate))
    /\ synth_rate' = Rate(ClearRate)
    /\ pc' = "open"
    /\ UNCHANGED <<program, dir_exists, asset, idx, bass_samples, wave_file,
                   files, error, call, ret>>


(***************************************************************************)
(* create_tetris_sound                                                     *)
(***************************************************************************)
base_freqs ==
    << <<Centi(52325), Centi(65925), Centi(78399)>>,
       <<Centi(69846), Centi(88000), Centi(104650)>>,
       <<Centi(78399), Centi(98777), Centi(117466)>>,
       <<Centi(104650), Centi(131851), Centi(156798)>> >>

durations == <<Rat(6, 100), Rat(6, 100), Rat(6, 100), Rat(12, 100)>>

volumes == <<Rat(3, 10), Rat(3, 10), Rat(3, 10), Rat(4, 10)>>

\* (variant: every chord arpeggiated, the last one too)
ChordSamplesInSequence(chord_idx, sample_rate) ==
    LET chord == base_freqs[chord_idx]
        d == durations[chord_idx]
        v == volumes[chord_idx]
    IN  generate_square_wave(chord[1], d, v, sample_rate)
        \o generate_square_wave(chord[2], d, v, sample_rate)
        \o generate_square_wave(chord[3], d, v, sample_rate)

\* the samples one iteration of "for chord_idx, chord in enumerate(base_freqs)"
\* appends: the last chord's notes summed, every other chord's notes one
\* after another
ChordSamples(chord_idx, sample_rate) ==
    LET chord == base_freqs[chord_idx]
        d == durations[chord_idx]
        v == volumes[chord_idx]
    IN  IF chord_idx = Len(base_freqs)
        THEN MixChord([j \in 1..Len(chord) |->
                 generate_square_wave(chord[j], d, RDiv(v, Whole(Len(chord))),
                                      sample_rate)])
        ELSE generate_square_wave(chord[1], d, v, sample_rate)
             \o generate_square_wave(chord[2], d, v, sample_rate)
             \o generate_square_wave(chord[3], d, v, sample_rate)

TetrisChord ==
    /\ program = "sounds" /\ pc = "tetris"
    /\ samples' = samples \o ChordSamples(idx, Rate(SquareWaveRate))
    /\ synth_rate' = Rate(SquareWaveRate)
    /\ IF idx = Len(base_freqs) THEN pc' = "tetris_normalize" /\ idx' = 1
                                ELSE pc' = pc /\ idx' = idx + 1
    /\ UNCHANGED <<program, dir_exists, asset, bass_samples, wave_file, files,
                   error, call, ret>>

\* lines 122-128: normalise to 0.9 and return; min() of an empty list raises
\* ValueError
TetrisNormalize ==
    /\ program = "sounds" /\ pc = "tetris_normalize"
    /\ IF samples = <<>>
       THEN error' = "ValueError" /\ pc' = "error" /\ UNCHANGED samples
       ELSE /\ samples' = Normalize(samples, Rat(9, 10))
            /\ pc' = "open" /\ UNCHANGED error
    /\ UNCHANGED <<program, dir_exists, asset, idx, bass_samples, synth_rate,
                   wave_file, files, call, ret>>

(***************************************************************************)
(* create_background_music                                                 *)
(***************************************************************************)
\* one note of a voice: the square wave at the default rate of
\* generate_square_wave, with ramps of int(attack * sample_rate) and
\* int(release * sample_rate) samples
VoiceNote(note, amplitude, attack, release, sample_rate) ==
    LET note_samples == generate_square_wave(note_freq(note[1]),
                            RMul(quarter_duration, note[2]), amplitude,
                            Rate(SquareWaveRate))
        attack_samples == PyInt(RMul(attack, Whole(sample_rate)))
        release_samples == PyInt(RMul(release, Whole(sample_rate)))
    IN  Envelope(note_samples, attack_samples, release_samples)

\* one iteration of "for freq, duration in melody"
MelodyNote ==
    /\ program = "sounds" /\ pc = "melody"
    /\ LET env == VoiceNote(melody[idx], Rat(3, 10), Rat(2, 100), Rat(3, 100),
                            Rate(MusicRate))
       IN  IF env.error
           THEN /\ error' = "IndexError" /\ pc' = "error"
                /\ UNCHANGED <<samples, idx>>
           ELSE /\ samples' = samples \o env.note
                /\ IF idx = Len(melody) THEN pc' = "bass" /\ idx' = 1
                                        ELSE pc' = pc /\ idx' = idx + 1
                /\ UNCHANGED error
    /\ synth_rate' = Rate(SquareWaveRate)
    /\ bass_samples' = <<>>
    /\ UNCHANGED <<program, dir_exists, asset, wave_file, files, call, ret>>

\* one iteration of "for freq, duration in bass"
BassNote ==
    /\ program = "sounds" /\ pc = "bass"
    /\ LET env == VoiceNote(bass[idx], Rat(2, 10), Rat(3, 100), Rat(4, 100),
                            Rate(MusicRate))
       IN  IF env.error
           THEN /\ error' = "IndexError" /\ pc' = "error"
                /\ UNCHANGED <<bass_samples, idx>>
           ELSE /\ bass_samples' = bass_samples \o env.note
                /\ IF idx = Len(bass) THEN pc' = "mix" /\ idx' = 1
                                      ELSE pc' = pc /\ idx' = idx + 1
                /\ UNCHANGED error
    /\ UNCHANGED <<program, dir_exists, asset, samples, synth_rate, wave_file,
                   files, call, ret>>

\* lines 351-366: pad, mix, normalise to 0.95, return the mix twice
MixMusic ==
    /\ program = "sounds" /\ pc = "mix"
    /\ LET mixed_samples == MixPadded(samples, bass_samples)
       IN  IF mixed_samples = <<>>
           THEN error' = "ValueError" /\ pc' = "error" /\ UNCHANGED samples
           ELSE /\ samples' = Twice(Normalize(mixed_samples, Rat(95, 100)))
                /\ pc' = "open" /\ UNCHANGED error
    /\ bass_samples' = <<>>
    /\ UNCHANGED <<program, dir_exists, asset, idx, synth_rate, wave_file,
                   files, call, ret>>

(***************************************************************************)
(* save_wave_file                                                          *)
(***************************************************************************)
\* wave.open(filename, 'w') and the three header setters; opening a file in
\* a directory that does not exist raises FileNotFoundError
OpenWave ==
    /\ program \in {"sounds", "save_wave_file"} /\ pc = "open"
    /\ IF ~dir_exists
       THEN error' = "FileNotFoundError" /\ pc' = "error" /\ UNCHANGED wave_file
       ELSE /\ wave_file' = [name |-> WavName(asset), nchannels |-> 1,
                             sampwidth |-> 2, framerate |-> Rate(WaveFileRate)]
            /\ pc' = "write" /\ UNCHANGED error
    /\ UNCHANGED <<program, dir_exists, asset, idx, samples, bass_samples,
                   synth_rate, files, call, ret>>

\* the conversion loop, writeframes and the close at the end of the with
\* block.  On struct.error nothing has been handed to writeframes: the file
\* is closed with its header and no frames, and the exception ends the run.
WriteWave ==
    /\ program \in {"sounds", "save_wave_file"} /\ pc = "write"
    /\ LET enc == EncodeLoop(samples)
           written(frames) == [name |-> wave_file.name,
                               nchannels |-> wave_file.nchannels,
                               sampwidth |-> wave_file.sampwidth,
                               framerate |-> wave_file.framerate,
                               frames |-> frames]
       IN  IF enc.error
           THEN /\ files' = Append(files, written(<<>>))
                /\ error' = "struct.error" /\ pc' = "error"
                /\ UNCHANGED <<asset, samples>>
           ELSE /\ files' = Append(files, written(enc.sample_data))
                /\ UNCHANGED error
                /\ IF program = "sounds" /\ asset < Len(AssetNames)
                   THEN /\ asset' = asset + 1 /\ pc' = CreatePc[asset + 1]
                        /\ samples' = <<>>
                   ELSE pc' = "done" /\ UNCHANGED <<asset, samples>>
    /\ wave_file' = NoFile
    /\ UNCHANGED <<program, dir_exists, idx, bass_samples, synth_rate, call,
                   ret>>

(***************************************************************************)
(* generate_mac_icons                                                      *)
(***************************************************************************)
IconNames == <<"icon_16x16.png", "icon_32x32.png", "icon_64x64.png",
               "icon_128x128.png", "icon_256x256.png", "icon_512x512.png",
               "icon_1024x1024.png">>

\* (variant: os.makedirs('icons') without the os.path.exists test)
IconsMakedirsUnguarded ==
    /\ program = "icons" /\ pc = "makedirs"
    /\ IF MakedirsFails(dir_exists, FALSE)
       THEN error' = "FileExistsError" /\ pc' = "error"
            /\ UNCHANGED <<dir_exists, asset>>
       ELSE dir_exists' = TRUE /\ pc' = "icon" /\ asset' = 1
            /\ UNCHANGED error
    /\ UNCHANGED <<program, idx, samples, bass_samples, synth_rate, wave_file,
                   files, call, ret>>

\* if not os.path.exists('icons'): os.makedirs('icons')
IconsMakedirs ==
    /\ program = "icons" /\ pc = "makedirs"
    /\ IF ~dir_exists
       THEN IF MakedirsFails(dir_exists, FALSE)
            THEN error' = "FileExistsError" /\ pc' = "error"
                 /\ UNCHANGED <<dir_exists, asset>>
            ELSE dir_exists' = TRUE /\ pc' = "icon" /\ asset' = 1
                 /\ UNCHANGED error
       ELSE pc' = "icon" /\ asset' = 1 /\ UNCHANGED <<dir_exists, error>>
    /\ UNCHANGED <<program, idx, samples, bass_samples, synth_rate, wave_file,
                   files, call, ret>>

\* one iteration of "for size in sizes": create the icon and save it
IconSave ==
    /\ program = "icons" /\ pc = "icon"
    /\ IF ~dir_exists
       THEN error' = "FileNotFoundError" /\ pc' = "error"
            /\ UNCHANGED <<files, asset>>
       ELSE /\ files' = Append(files, [name |-> IconNames[asset],
                                       image |-> create_tetris_icon(sizes[asset])])
            /\ IF asset = Len(sizes) THEN pc' = "done" /\ UNCHANGED asset
                                     ELSE pc' = pc /\ asset' = asset + 1
            /\ UNCHANGED error
    /\ UNCHANGED <<program, dir_exists, idx, samples, bass_samples, synth_rate,
                   wave_file, call, ret>>

(***************************************************************************)
(* Specification of a run of either generator.                             *)
(***************************************************************************)
NoCallState == call = NoCall /\ ret = NoCall

Init ==
    /\ program \in {"sounds", "icons"}
    /\ dir_exists \in BOOLEAN
    /\ pc = "makedirs"
    /\ asset = 0 /\ idx = 1
    /\ samples = <<>> /\ bass_samples = <<>>
    /\ synth_rate = 0
    /\ wave_file = NoFile
    /\ files = <<>>
    /\ error = "none"
    /\ NoCallState

Next ==
    \/ SoundsMakedirs
    \/ create_move_sound
    \/ create_rotate_sound
    \/ create_drop_sound
    \/ create_clear_sound
    \/ TetrisChord
    \/ TetrisNormalize
    \/ create_game_over_sound
    \/ MelodyNote
    \/ BassNote
    \/ MixMusic
    \/ OpenWave
    \/ WriteWave
    \/ IconsMakedirs
    \/ IconSave

Spec == Init /\ [][Next]_vars


(***************************************************************************)
(* Functions called on their own, with arguments drawn from bounded sets.  *)
(***************************************************************************)
\* all sequences over S of length 0..n
RECURSIVE SeqsUpTo(_, _)
SeqsUpTo(S, n) ==
    IF n = 0 THEN {<<>>}
    ELSE LET shorter == SeqsUpTo(S, n - 1)
         IN  shorter \cup {Append(q, x) : q \in shorter, x \in S}

\* the state of a run that calls one function and nothing else
CallOf(fn) ==
    /\ program = fn /\ pc = "call"
    /\ dir_exists = FALSE
    /\ asset = 0 /\ idx = 1
    /\ samples = <<>> /\ bass_samples = <<>>
    /\ synth_rate = 0
    /\ wave_file = NoFile
    /\ files = <<>>
    /\ error = "none"
    /\ ret = NoCall

Return(fn, result) ==
    /\ program = fn /\ pc = "call"
    /\ ret' = result
    /\ pc' = "return"
    /\ UNCHANGED <<program, dir_exists, asset, idx, samples, bass_samples,
                   synth_rate, wave_file, files, error, call>>

(* save_wave_file(filename, samples) in an existing directory *)
MaxEncodeLen == 2

SampleValues ==
    {Whole(0), Rat(3, 10), Rat(-3, 10), Rat(1, 2), Rat(-1, 2), Rat(27, 40),
     Rat(-19, 20), Whole(1), Whole(-1),
     Rat(40000, 39999), Rat(-40000, 39999),         \* just outside [-1, 1]
     Rat(32768, 32767), Rat(-32768, 32767), Rat(-32769, 32767),
     Whole(2), Whole(-2)}

InitSave ==
    /\ program = "save_wave_file" /\ pc = "open"
    /\ dir_exists = TRUE
    /\ samples \in SeqsUpTo(SampleValues, MaxEncodeLen)
    /\ asset = 0 /\ idx = 1 /\ bass_samples = <<>>
    /\ synth_rate = 0
    /\ wave_file = NoFile
    /\ files = <<>>
    /\ error = "none"
    /\ NoCallState

NextSave == OpenWave \/ WriteWave

SpecSave == InitSave /\ [][NextSave]_vars

(* generate_square_wave(frequency, duration, amplitude, sample_rate) *)
MaxRate == 12

SquareCalls ==
    [fn : {"generate_square_wave"},
     frequency : {Whole(1), Whole(2), Whole(5)},
     duration : {Rat(1, 10), Rat(3, 10), Rat(1, 2), Whole(1), Rat(3, 2),
                 RMul(quarter_duration, Rat(3, 4))},
     amplitude : {Rat(3, 10), Whole(1)},
     sample_rate : 1..MaxRate]
    \cup
    \* a dotted eighth of the score at the real rate
    [fn : {"generate_square_wave"},
     frequency : {note_freq(2)},
     duration : {RMul(quarter_duration, Rat(3, 4))},
     amplitude : {Rat(3, 10)},
     sample_rate : {SquareWaveRate}]

InitSquare == CallOf("generate_square_wave") /\ call \in SquareCalls

CallSquareWave ==
    /\ call.fn = "generate_square_wave"
    /\ Return("generate_square_wave",
              [samples |-> generate_square_wave(call.frequency, call.duration,
                                call.amplitude, call.sample_rate)])

SpecSquare == InitSquare /\ [][CallSquareWave]_vars

(* the normalisation step on a mixed buffer *)
MaxBufLen == 3

MixValues == {Rat(-1, 2), Rat(-2, 15), Whole(0), Rat(3, 10), Rat(2, 5)}

NormalizeCalls ==
    [fn : {"normalize"},
     samples : SeqsUpTo(MixValues, MaxBufLen),
     headroom : {Rat(9, 10), Rat(95, 100)}]

InitNormalize == CallOf("normalize") /\ call \in NormalizeCalls

\* min() and max() of an empty list raise ValueError
CallNormalize ==
    /\ call.fn = "normalize"
    /\ Return("normalize",
              IF call.samples = <<>> THEN [raised |-> "ValueError"]
              ELSE [raised |-> "none",
                    samples |-> Normalize(call.samples, call.headroom)])

SpecNormalize == InitNormalize /\ [][CallNormalize]_vars

(* the attack and release ramps on one note *)
MaxNoteLen == 4
MaxRamp == 3

EnvelopeCalls ==
    [fn : {"envelope"},
     note_samples : SeqsUpTo({Rat(3, 10), Rat(-3, 10)}, MaxNoteLen),
     attack_samples : 1..MaxRamp,
     release_samples : 1..MaxRamp]

InitEnvelope == CallOf("envelope") /\ call \in EnvelopeCalls

CallEnvelope ==
    /\ call.fn = "envelope"
    /\ Return("envelope",
              Envelope(call.note_samples, call.attack_samples,
                       call.release_samples))

SpecEnvelope == InitEnvelope /\ [][CallEnvelope]_vars

(* the two mixing sites on voices of any lengths *)
MaxVoiceLen == 2

VoiceValues == {Rat(2, 15), Rat(-2, 15), Rat(3, 10)}

Voices == SeqsUpTo(VoiceValues, MaxVoiceLen)

MixCalls ==
    [fn : {"chord"}, voices : [1..3 -> Voices]]
    \cup [fn : {"melody_bass"}, voices : [1..2 -> Voices]]

InitMix == CallOf("mix") /\ call \in MixCalls

CallMixChord ==
    /\ call.fn = "chord"
    /\ Return("mix", [samples |-> MixChord(call.voices)])

CallMixPadded ==
    /\ call.fn = "melody_bass"
    /\ Return("mix", [samples |-> MixPadded(call.voices[1], call.voices[2])])

NextMix == CallMixChord \/ CallMixPadded

SpecMix == InitMix /\ [][NextMix]_vars


(***************************************************************************)
(* Properties.                                                             *)
(***************************************************************************)
\* -1.0 <= x <= 1.0
InRange(x) == RLe(Whole(-1), x) /\ RLe(x, Whole(1))

\* v is x with its fractional part dropped
TruncatedTowardZero(v, x) ==
    IF x[1] >= 0 THEN v * x[2] <= x[1] /\ x[1] < (v + 1) * x[2]
    ELSE (v - 1) * x[2] < x[1] /\ x[1] <= v * x[2]

\* v is an integer nearest to x
NearestInteger(v, x) == 2 * IAbs(x[1] - v * x[2]) <= x[2]

\* the last file written
LastFile == files[Len(files)]

\* C1: whenever main has a wave file open for an asset, the frame rate
\* declared in its header is the rate the asset's samples were synthesised
\* at.
C1_HeaderRateIsSynthRate ==
    (program = "sounds" /\ wave_file # NoFile)
        => wave_file.framerate = synth_rate

SaveEnded == program = "save_wave_file" /\ pc \in {"done", "error"}

\* C2 (as amended): save_wave_file given samples in [-1, 1] ends without
\* error and writes, for each sample s, the integer s * 32767 truncated
\* toward zero.
C2_SamplesTruncated ==
    (SaveEnded /\ \A k \in 1..Len(samples) : InRange(samples[k]))
        => /\ pc = "done"
           /\ Len(LastFile.frames) = Len(samples)
           /\ \A k \in 1..Len(samples) :
                  TruncatedTowardZero(LastFile.frames[k],
                                      RMul(samples[k], Whole(32767)))

\* C2 as stated: each sample s in [-1, 1] is written as round(s * 32767),
\* an integer nearest to the scaled sample.
C2_SamplesRounded ==
    (SaveEnded /\ \A k \in 1..Len(samples) : InRange(samples[k]))
        => /\ pc = "done"
           /\ Len(LastFile.frames) = Len(samples)
           /\ \A k \in 1..Len(samples) :
                  NearestInteger(LastFile.frames[k],
                                 RMul(samples[k], Whole(32767)))

C2_Witness ==
    /\ program = "save_wave_file" /\ pc = "done"
    /\ samples = <<Rat(27, 40), Rat(-1, 2)>>
    /\ LastFile.frames = <<22117, -16383>>

\* C3: save_wave_file given any sample outside [-1, 1] ends in an error and
\* writes no frame.
C3_OutOfRangeFails ==
    (SaveEnded /\ \E k \in 1..Len(samples) : ~InRange(samples[k]))
        => /\ pc = "error" /\ error = "struct.error"
           /\ LastFile.frames = <<>>

TetrisHandedOver == program = "sounds" /\ asset = 5 /\ pc \in {"open", "write"}

\* C4 (as amended): the buffer create_tetris_sound returns is as long as nine
\* 0.06 s notes (three arpeggiated chords of three notes) followed by one
\* 0.12 s chord, 9 * 0.06 + 0.12 = 0.66 seconds at the rate of synthesis.
C4_TetrisLength ==
    TetrisHandedOver
        => Len(samples) = 9 * ((6 * synth_rate) \div 100)
                          + ((12 * synth_rate) \div 100)

\* C4 as stated: the buffer is as long as three 0.06 s notes followed by one
\* 0.12 s chord, 0.30 seconds.
C4_TetrisLengthThreeNotes ==
    TetrisHandedOver
        => Len(samples) = 3 * ((6 * synth_rate) \div 100)
                          + ((12 * synth_rate) \div 100)

C4_Witness ==
    /\ TetrisHandedOver /\ pc = "write"
    /\ Len(samples) > 0
    /\ MaxAmplitude(samples) = Rat(9, 10)

SquareReturned == program = "generate_square_wave" /\ pc = "return"

\* C5 (as amended): generate_square_wave returns int(duration * sample_rate)
\* samples, the product truncated: n <= duration * sample_rate < n + 1.
C5_LengthTruncated ==
    SquareReturned
        => LET n == Len(ret.samples)
               x == RMul(call.duration, Whole(call.sample_rate))
           IN  RLe(Whole(n), x) /\ RLt(x, Whole(n + 1))

\* C5 as stated: generate_square_wave returns round(duration * sample_rate)
\* samples, the product rounded to a nearest integer.
C5_LengthRounded ==
    SquareReturned
        => NearestInteger(Len(ret.samples),
                          RMul(call.duration, Whole(call.sample_rate)))

C5_Witness ==
    /\ SquareReturned
    /\ call.sample_rate = SquareWaveRate
    /\ call.duration = Rat(15, 64)
    /\ Len(ret.samples) = 10335

\* the largest magnitude of a non-empty buffer
Peak(s) ==
    LET mags == {RAbs(s[k]) : k \in 1..Len(s)}
    IN  CHOOSE m \in mags : \A y \in mags : RLe(y, m)

\* C6: normalising a non-empty buffer of peak > 0 leaves
\* max(|min|, |max|) equal to the headroom with every sample multiplied by
\* headroom / peak; a buffer of peak 0 is unchanged.
C6_NormalizedToHeadroom ==
    (program = "normalize" /\ pc = "return" /\ ret.raised = "none")
        => LET s == call.samples
               out == ret.samples
               peak == Peak(s)
           IN  /\ Len(out) = Len(s)
               /\ IF RLt(Whole(0), peak)
                  THEN /\ MaxAmplitude(out) = call.headroom
                       /\ \A k \in 1..Len(s) :
                              RMul(out[k], peak) = RMul(s[k], call.headroom)
                  ELSE out = s

C6_Witness ==
    /\ program = "normalize" /\ pc = "return"
    /\ call.samples = <<Rat(-1, 2), Rat(3, 10), Rat(2, 5)>>
    /\ call.headroom = Rat(9, 10)
    /\ ret.samples = <<Rat(-9, 10), Rat(27, 50), Rat(18, 25)>>

EnvelopeReturned == program = "envelope" /\ pc = "return"

\* what C7 says of every call, but for the sample at index A - 1
EnvelopeRamps ==
    LET s == call.note_samples
        L == Len(s)
        A == call.attack_samples
        R == call.release_samples
    IN  /\ ~ret.error
        /\ ret.attack = [i \in 1..IMin(A, L) |-> i - 1]
        /\ ret.release = [i \in 1..IMin(R, L) |-> L - i]
        /\ Len(ret.note) = L
        /\ \A j \in 0..(L - 1) :
              ret.note[j + 1] =
                 RMul(RMul(s[j + 1], IF j < A THEN Rat(j, A) ELSE Whole(1)),
                      IF L - 1 - j < R THEN Rat(L - 1 - j, R) ELSE Whole(1))
        /\ L > 0 => ret.note[1] = Whole(0) /\ ret.note[L] = Whole(0)

\* the sample at index A - 1 keeps (A - 1) / A of its amplitude
AttackEndKept ==
    LET A == call.attack_samples
    IN  ret.note[A] = RMul(call.note_samples[A], Rat(A - 1, A))

\* C7 (as amended): the ramps access only indices 0..L-1, scale sample i by
\* i/A for exactly the first min(A, L) indices and sample L-1-i by i/R for
\* exactly the last min(R, L), so the first and last sample of a non-empty
\* note become 0; the sample at index A-1 keeps (A-1)/A of its amplitude
\* when the release ramp does not reach it (A + R <= L).
C7_Envelope ==
    EnvelopeReturned
        => /\ EnvelopeRamps
           /\ (call.attack_samples + call.release_samples
                   <= Len(call.note_samples)) => AttackEndKept

\* C7 as stated: the same, with the sample at index A-1 keeping (A-1)/A of
\* its amplitude in every note that has such an index.
C7_EnvelopeAnyLength ==
    EnvelopeReturned
        => /\ EnvelopeRamps
           /\ call.attack_samples <= Len(call.note_samples) => AttackEndKept

C7_Witness ==
    /\ EnvelopeReturned
    /\ Len(call.note_samples) = 4
    /\ call.attack_samples = 2 /\ call.release_samples = 2
    /\ ret.note[2] = RMul(call.note_samples[2], Rat(1, 2))
    /\ ret.note[3] = RMul(call.note_samples[3], Rat(1, 2))

\* the sum at list position k of the voices j..n, an ended voice adding 0
RECURSIVE VoiceSum(_, _, _, _)
VoiceSum(voices, k, j, n) ==
    IF j > n THEN Whole(0)
    ELSE RAdd(IF k <= Len(voices[j]) THEN voices[j][k] ELSE Whole(0),
              VoiceSum(voices, k, j + 1, n))

\* C8: at both mixing sites the mix is as long as the longest voice and each
\* of its samples is the sum of the voices at that index, an ended voice
\* adding 0.
C8_MixKeepsLongestVoice ==
    (program = "mix" /\ pc = "return")
        => LET n == Cardinality(DOMAIN call.voices)
               longest == CHOOSE m \in {Len(call.voices[j]) : j \in 1..n} :
                              \A j \in 1..n : Len(call.voices[j]) <= m
           IN  /\ Len(ret.samples) = longest
               /\ \A k \in 1..longest :
                      ret.samples[k] = VoiceSum(call.voices, k, 1, n)

\* C9: every sample of every buffer main hands to save_wave_file lies in
\* [-1.0, 1.0].
C9_SamplesInRange ==
    (program = "sounds" /\ pc \in {"open", "write"})
        => \A k \in 1..Len(samples) : InRange(samples[k])

C9_Witness ==
    /\ program = "sounds" /\ pc = "write" /\ asset = 7
    /\ Len(files) = 6
    /\ MaxAmplitude(samples) = Rat(95, 100)

\* the file names of a generator in the order it writes them
WriteOrder == IF program = "sounds" THEN AssetNames ELSE IconNames

\* C10: in a run of either generator the output directory exists whenever a
\* file is about to be, is being or has been written, no run ends in
\* FileExistsError (or in a write into a missing directory), and the files
\* are written in the listed order, each one complete before the next is
\* opened.
C10_DirectoryThenFilesInOrder ==
    program \in {"sounds", "icons"}
        => /\ error \notin {"FileExistsError", "FileNotFoundError"}
           /\ (pc \in {"open", "write", "icon"} \/ wave_file # NoFile
                   \/ files # <<>>) => dir_exists
           /\ Len(files) <= Len(WriteOrder)
           /\ \A i \in 1..Len(files) : files[i].name = WriteOrder[i]
           /\ wave_file # NoFile
                  => wave_file.name = WriteOrder[Len(files) + 1]
           /\ pc = "done" => Len(files) = Len(WriteOrder)

C10_Witness ==
    /\ program = "icons" /\ pc = "done"
    /\ dir_exists
    /\ Len(files) = Len(sizes)


\* the pixels of a filled rectangle share a pixel with those of another:
\* corner coordinates are inclusive
SharePixel(r, q) ==
    /\ IMax(r.left, q.left) <= IMin(r.right, q.right)
    /\ IMax(r.top, q.top) <= IMin(r.bottom, q.bottom)

\* C11: for every icon generate_mac_icons saves, of size N with
\* block_size = N \div 4, the filled rectangle of every block (x, y), corners
\* inclusive, lies inside the canvas [0, N-1] x [0, N-1] and inside the
\* block's own grid cell [x*block_size, (x+1)*block_size - 1] x
\* [y*block_size, (y+1)*block_size - 1], so no two blocks' rectangles share
\* a pixel.
C11_RectanglesInsideCells ==
    program = "icons"
        => \A i \in 1..Len(files) :
              LET N == files[i].image.size
                  block_size == N \div 4
                  rects == files[i].image.rects
              IN  /\ \A r \in rects :
                        /\ 0 <= r.left /\ r.left <= r.right /\ r.right <= N - 1
                        /\ 0 <= r.top /\ r.top <= r.bottom /\ r.bottom <= N - 1
                        /\ r.x * block_size <= r.left
                        /\ r.right <= (r.x + 1) * block_size - 1
                        /\ r.y * block_size <= r.top
                        /\ r.bottom <= (r.y + 1) * block_size - 1
                  /\ \A r, q \in rects :
                        (r.x # q.x \/ r.y # q.y) => ~SharePixel(r, q)


====
